---- MODULE Spec2Model ----
(***************************************************************************)
(* cc430-modem.c: a UART <-> sub-GHz radio modem.  The model is the state  *)
(* machine formed by the globals of the file, the main loop and the four   *)
(* interrupt handlers (USCI_A0 RX, USCI_A0 TX, CC1101, TIMER1_A0).         *)
(*                                                                         *)
(* C arrays are sequences (C index k is element k+1).  unsigned char       *)
(* arithmetic is kept modulo 256, signed char through SChar.  An access    *)
(* outside an array is undefined behaviour: the step that performs it      *)
(* records the array in `fault` and the model follows the program no       *)
(* further (every action is guarded by fault = "none").                    *)
(***************************************************************************)
EXTENDS Integers, Sequences, FiniteSets, TLC

\* ------------------------------------------------------------ constants
PAYLOAD_LEN == 32
PACKET_LEN == PAYLOAD_LEN + 3
UART_BUF_LEN == PAYLOAD_LEN * 3
CRC_OK == 128
MIN_RX_BYTES == 5

\* character codes used by the code ('\n', '\0', '0', ' ', 'X') and by the inputs
NL == 10
NUL == 0
CH_0 == 48
CH_SP == 32
CH_X == 88

\* ------------------------------------------------------------- bounds
MaxStream == 3      \* longest exhaustively enumerated serial input
MaxPolls == 2       \* polls of the radio status counted in one wait
MaxCount == 2       \* where the counters nTx and timerFired stop counting

\* ------------------------------------------------------------ helpers
UChar(v) == v % 256
SChar(v) == IF UChar(v) > 127 THEN UChar(v) - 256 ELSE UChar(v)
UpTo(v, max) == IF v < max THEN v ELSE max
Zeros(n) == [k \in 1..n |-> 0]
Rep(c, n) == [k \in 1..n |-> c]

RECURSIVE SeqsUpTo(_, _)
SeqsUpTo(S, n) ==
  IF n = 0 THEN {<<>>}
  ELSE LET prev == SeqsUpTo(S, n - 1)
       IN prev \cup {Append(s, c) : s \in {p \in prev : Len(p) = n - 1}, c \in S}

IsPrefix(s, t) == Len(s) <= Len(t) /\ SubSeq(t, 1, Len(s)) = s

\* a store into / a load from a C array held with its overrun flag
Poke(m, idx, v) ==
  IF idx >= 0 /\ idx < Len(m.a) THEN [m EXCEPT !.a[idx + 1] = v]
  ELSE [m EXCEPT !.oob = TRUE]

\* ------------------------------------------------------------- inputs
Letters == {65, 66}                      \* 'A', 'B'
Alphabet == Letters \cup {NL}
LineOf(k) == Rep(65, k) \o <<NL>>        \* k letters and the terminator
Packet(fifo, state) == [fifo |-> fifo, state |-> state]
\* what the radio puts in its RX FIFO: length byte, payload, RSSI, LQI|CRC
Frame(payload, rssi, status) == <<Len(payload)>> \o payload \o <<rssi, status>>

VARIABLES
  \* globals of cc430-modem.c
  UartRxBuffer, UartRxBuffer_i,
  UartTxBuffer, UartTxBuffer_i, UartTxBufferLength, uart_rx_timeout,
  RfRxBuffer, RfRxBufferLength,
  RfTxBuffer, data_to_send, rf_error, rf_transmitting, rf_receiving,
  \* processor and peripherals
  pc,          \* position of main
  cpuoff,      \* CPUOFF (LPM0) set: main waits for an interrupt
  nPolls,      \* status polls done in the current wait for IDLE
  timerOn,     \* TA1 running with CCIE
  txifg,       \* UCTXIFG pending
  rfie,        \* RF1AIE bit 9
  radio,       \* radio core state as Strobe(RF_SNOP) reports it
  txfifo,      \* bytes last handed to the radio by RfTransmit
  \* environment
  uartIn,      \* serial bytes still to arrive
  rfIn,        \* radio packets still to arrive
  \* observation
  accepted,    \* serial bytes stored in UartRxBuffer, in order
  sent,        \* payload bytes handed to the radio, in order
  nTx,         \* transmissions started, counted up to MaxCount
  serialOut,   \* bytes written to UCA0TXBUF, in order
  appended,    \* bytes appended to UartTxBuffer, in order
  nResets,     \* ResetRadioCore + InitRadio done by main
  nRxFaults,   \* received packets that took the rx_error path
  timerFired,  \* TIMER1_A0_ISR runs that raised the timeout, up to MaxCount
  fault        \* "none", or the array an access left

prog == <<UartRxBuffer, UartRxBuffer_i, UartTxBuffer, UartTxBuffer_i,
          UartTxBufferLength, uart_rx_timeout, RfRxBuffer, RfRxBufferLength,
          RfTxBuffer, data_to_send, rf_error, rf_transmitting, rf_receiving>>
hw == <<pc, cpuoff, nPolls, timerOn, txifg, rfie, radio, txfifo>>
env == <<uartIn, rfIn>>
obs == <<accepted, sent, nTx, serialOut, appended, nResets, nRxFaults, timerFired, fault>>
vars == <<prog, hw, env, obs>>

ingress == <<UartRxBuffer, UartRxBuffer_i, data_to_send>>
egress == <<UartTxBuffer, UartTxBuffer_i, UartTxBufferLength>>
rfrx == <<RfRxBuffer, RfRxBufferLength>>

Running == fault = "none"
Halt(name) == fault' = name /\ UNCHANGED <<prog, hw, env, accepted, sent, nTx,
                                          serialOut, appended, nResets, nRxFaults, timerFired>>
\* ------------------------------------------------------------ the timer
\* timer_clear(), timer_set(): t is [on, timeout] = <TA1 running, uart_rx_timeout>
timer_clear(t) == [on |-> FALSE, timeout |-> 0]
timer_set(t) == [t EXCEPT !.on = TRUE]

\* --------------------------------------------------------- serial input
\* handle_uart_rx_byte() for the byte tmpchar read from UCA0RXBUF; ret is the
\* value it returns
handle_uart_rx_byte(tmpchar, ret) ==
  LET t0 == timer_clear([on |-> timerOn, timeout |-> uart_rx_timeout])
  IN IF UartRxBuffer_i = UART_BUF_LEN THEN
       /\ ret = 0
       /\ timerOn' = t0.on /\ uart_rx_timeout' = t0.timeout
       /\ UNCHANGED <<ingress, accepted, fault>>
     ELSE
       /\ UartRxBuffer' = [UartRxBuffer EXCEPT ![UartRxBuffer_i + 1] = tmpchar]
       /\ UartRxBuffer_i' = UChar(UartRxBuffer_i + 1)
       /\ accepted' = Append(accepted, tmpchar)
       /\ UNCHANGED fault
       /\ IF tmpchar = NL THEN
            /\ data_to_send' = UChar(UartRxBuffer_i + 1)
            /\ timerOn' = t0.on /\ uart_rx_timeout' = t0.timeout
            /\ ret = 1
          ELSE
            /\ timerOn' = timer_set(t0).on /\ uart_rx_timeout' = timer_set(t0).timeout
            /\ UNCHANGED data_to_send
            /\ ret = 0

\* USCI_A0_ISR, vector 2 (RXIFG): one serial byte has arrived
USCI_A0_ISR_RX ==
  /\ Running
  /\ uartIn # <<>>
  /\ IF UartRxBuffer_i > UART_BUF_LEN THEN Halt("UartRxBuffer")
     ELSE
       /\ \E ret \in {0, 1} :
            /\ handle_uart_rx_byte(Head(uartIn), ret)
            /\ cpuoff' = IF ret # 0 THEN FALSE ELSE cpuoff
       /\ uartIn' = Tail(uartIn)
       /\ UNCHANGED <<egress, rfrx, RfTxBuffer, rf_error, rf_transmitting, rf_receiving,
                      pc, nPolls, txifg, rfie, radio, txfifo, rfIn,
                      sent, nTx, serialOut, appended, nResets, nRxFaults, timerFired>>

\* TIMER1_A0_ISR: the new-data timeout has expired
TIMER1_A0_ISR ==
  /\ Running
  /\ timerOn
  /\ LET t0 == timer_clear([on |-> timerOn, timeout |-> uart_rx_timeout])
     IN /\ timerOn' = t0.on
        /\ IF UartRxBuffer_i > 0 THEN
             /\ data_to_send' = 1
             /\ uart_rx_timeout' = 1
             /\ timerFired' = UpTo(timerFired + 1, MaxCount)
           ELSE
             /\ uart_rx_timeout' = t0.timeout
             /\ UNCHANGED <<data_to_send, timerFired>>
  /\ UNCHANGED <<UartRxBuffer, UartRxBuffer_i, egress, rfrx, RfTxBuffer, rf_error,
                 rf_transmitting, rf_receiving, pc, cpuoff, nPolls, txifg, rfie, radio,
                 txfifo, env, accepted, sent, nTx, serialOut, appended, nResets,
                 nRxFaults, fault>>

\* -------------------------------------------------------- serial output
\* USCI_A0_ISR, vector 4 (TXIFG): UCA0TXBUF is ready for the next byte
USCI_A0_ISR_TX ==
  /\ Running
  /\ txifg
  /\ IF UartTxBufferLength = 0 THEN
       /\ txifg' = FALSE
       /\ UNCHANGED <<egress, serialOut>>
     ELSE IF UChar(UartTxBuffer_i + 1) = UartTxBufferLength THEN
       /\ UartTxBuffer_i' = 0
       /\ UartTxBufferLength' = 0
       /\ txifg' = FALSE
       /\ UNCHANGED <<UartTxBuffer, serialOut>>
     ELSE
       /\ UartTxBuffer_i' = UChar(UartTxBuffer_i + 1)
       /\ serialOut' = Append(serialOut, UartTxBuffer[UartTxBuffer_i + 2])
       /\ txifg' = TRUE
       /\ UNCHANGED <<UartTxBuffer, UartTxBufferLength>>
  /\ UNCHANGED <<UartRxBuffer, UartRxBuffer_i, uart_rx_timeout, rfrx, RfTxBuffer,
                 data_to_send, rf_error, rf_transmitting, rf_receiving,
                 pc, cpuoff, nPolls, timerOn, rfie, radio, txfifo, env,
                 accepted, sent, nTx, appended, nResets, nRxFaults, timerFired, fault>>
\* ------------------------------------------------------------ the radio
\* RfReceiveOff(): RFIFG9 interrupt off, then the SIDLE and SFRX strobes
RfReceiveOff_radio(state) == IF state = "IDLE" THEN "IDLE" ELSE "SETTLING"

\* the radio core reaches IDLE some time after a reset or an SIDLE strobe
RadioSettle ==
  /\ Running
  /\ radio = "SETTLING"
  /\ radio' = "IDLE"
  /\ UNCHANGED <<prog, pc, cpuoff, nPolls, timerOn, txifg, rfie, txfifo, env, obs>>

\* ------------------------------------------------------------- dispatch
\* the for loop of send_next_msg that looks for the first '\n' below n
RECURSIVE FindNewline(_, _, _)
FindNewline(buf, x, n) ==
  IF x >= n THEN -1
  ELSE IF x >= Len(buf) THEN -2          \* a load beyond the array
  ELSE IF buf[x + 1] = NL THEN x + 1
  ELSE FindNewline(buf, x + 1, n)

\* the value of len after the first if/else of send_next_msg
MsgLen ==
  IF uart_rx_timeout = 1 THEN SChar(UartRxBuffer_i)
  ELSE FindNewline(UartRxBuffer, 0, data_to_send)

\* send_next_msg(), run with interrupts disabled
send_next_msg ==
  /\ Running
  /\ pc = "send" /\ ~cpuoff
  /\ LET len == MsgLen
         resid == UartRxBuffer_i - len
     IN IF len = 0 \/ len = -1 THEN
          /\ data_to_send' = 0
          /\ UartRxBuffer_i' = 0
          /\ uart_rx_timeout' = IF uart_rx_timeout = 1 THEN 0 ELSE uart_rx_timeout
          /\ pc' = "top"
          /\ UNCHANGED <<UartRxBuffer, egress, rfrx, RfTxBuffer, rf_error, rf_transmitting,
                         rf_receiving, cpuoff, nPolls, timerOn, txifg, rfie, radio, txfifo,
                         env, obs>>
        ELSE IF len < 0 THEN Halt("UartRxBuffer")
        ELSE IF len + 1 > PACKET_LEN THEN Halt("RfTxBuffer")
        ELSE IF len # UartRxBuffer_i /\ resid > 0 /\ UartRxBuffer_i > UART_BUF_LEN
          THEN Halt("UartRxBuffer")
        ELSE
          /\ RfTxBuffer' = [k \in 1..PACKET_LEN |->
                              IF k = 1 THEN len
                              ELSE IF k <= len + 1 THEN UartRxBuffer[k - 1]
                              ELSE RfTxBuffer[k]]
          /\ IF len # UartRxBuffer_i THEN
               /\ UartRxBuffer' = [k \in 1..UART_BUF_LEN |->
                                     IF k <= resid THEN UartRxBuffer[k + len]
                                     ELSE UartRxBuffer[k]]
               /\ UartRxBuffer_i' = UChar(resid)
               /\ UNCHANGED data_to_send
             ELSE
               /\ UartRxBuffer_i' = 0
               /\ data_to_send' = 0
               /\ UNCHANGED UartRxBuffer
          /\ uart_rx_timeout' = IF uart_rx_timeout = 1 THEN 0 ELSE uart_rx_timeout
          /\ rf_receiving' = 0
          /\ rf_transmitting' = 1
          \* RfTransmit(RfTxBuffer, RfTxBuffer[0] + 1)
          /\ rfie' = TRUE
          /\ txfifo' = <<len>> \o SubSeq(UartRxBuffer, 1, len)
          /\ radio' = "TX"
          /\ sent' = sent \o SubSeq(UartRxBuffer, 1, len)
          /\ nTx' = UpTo(nTx + 1, MaxCount)
          /\ pc' = "top"
          /\ UNCHANGED <<egress, rfrx, rf_error, cpuoff, nPolls, timerOn, txifg, env,
                         accepted, serialOut, appended, nResets, nRxFaults, timerFired, fault>>

\* ------------------------------------------------------------ main loop
\* while (1) { if (!rf_transmitting && !rf_receiving) ...
MainTop ==
  /\ Running
  /\ pc = "top" /\ ~cpuoff
  /\ pc' = IF rf_transmitting = 0 /\ rf_receiving = 0 THEN "rxoff" ELSE "sleep"
  /\ UNCHANGED <<prog, cpuoff, nPolls, timerOn, txifg, rfie, radio, txfifo, env, obs>>

\* RfReceiveOff();
MainRxOff ==
  /\ Running
  /\ pc = "rxoff" /\ ~cpuoff
  /\ rfie' = FALSE
  /\ radio' = RfReceiveOff_radio(radio)
  /\ pc' = "reset"
  /\ UNCHANGED <<prog, cpuoff, nPolls, timerOn, txifg, txfifo, env, obs>>

\* the supervisor going on to listen without the "Reset radio on error" block
MainReset_Skipped ==
  /\ Running
  /\ pc = "reset" /\ ~cpuoff
  /\ pc' = "poll"
  /\ nPolls' = 0
  /\ UNCHANGED <<prog, cpuoff, timerOn, txifg, rfie, radio, txfifo, env, obs>>

\* if (rf_error) { ResetRadioCore(); InitRadio(); rf_error = 0; }
MainReset ==
  /\ Running
  /\ pc = "reset" /\ ~cpuoff
  /\ IF rf_error # 0 THEN
       /\ radio' = "SETTLING"
       /\ rf_error' = 0
       /\ nResets' = nResets + 1
     ELSE UNCHANGED <<radio, rf_error, nResets>>
  /\ pc' = "poll"
  /\ nPolls' = 0
  /\ UNCHANGED <<ingress, egress, uart_rx_timeout, rfrx, RfTxBuffer, rf_transmitting,
                 rf_receiving, cpuoff, timerOn, txifg, rfie, txfifo, env,
                 accepted, sent, nTx, serialOut, appended, nRxFaults, timerFired, fault>>

\* while ((Strobe(RF_SNOP) & CC430_STATE_MASK) != CC430_STATE_IDLE) sleep_ms(1);
MainPoll ==
  /\ Running
  /\ pc = "poll" /\ ~cpuoff
  /\ IF radio = "IDLE" THEN pc' = "rxon" /\ UNCHANGED nPolls
     ELSE pc' = "poll" /\ nPolls' = IF nPolls < MaxPolls THEN nPolls + 1 ELSE nPolls
  /\ UNCHANGED <<prog, cpuoff, timerOn, txifg, rfie, radio, txfifo, env, obs>>

\* rf_receiving = 1; RfReceiveOn();
MainRxOn ==
  /\ Running
  /\ pc = "rxon" /\ ~cpuoff
  /\ rf_receiving' = 1
  /\ rfie' = TRUE
  /\ radio' = "RX"
  /\ pc' = "sleep"
  /\ UNCHANGED <<ingress, egress, uart_rx_timeout, rfrx, RfTxBuffer, rf_error,
                 rf_transmitting, cpuoff, nPolls, timerOn, txifg, txfifo, env, obs>>

\* __bis_status_register(LPM0_bits + GIE);
MainSleep ==
  /\ Running
  /\ pc = "sleep" /\ ~cpuoff
  /\ cpuoff' = TRUE
  /\ pc' = "check"
  /\ UNCHANGED <<prog, nPolls, timerOn, txifg, rfie, radio, txfifo, env, obs>>

\* the data_to_send test alone: a dispatch that does not wait for the end of
\* the transmission in flight
MainCheck_IgnoresTransmitting ==
  /\ Running
  /\ pc = "check" /\ ~cpuoff
  /\ pc' = IF data_to_send # 0 THEN "send" ELSE "top"
  /\ UNCHANGED <<prog, cpuoff, nPolls, timerOn, txifg, rfie, radio, txfifo, env, obs>>

\* if (!rf_transmitting && data_to_send) { send_next_msg() ... }
MainCheck ==
  /\ Running
  /\ pc = "check" /\ ~cpuoff
  /\ pc' = IF rf_transmitting = 0 /\ data_to_send # 0 THEN "send" ELSE "top"
  /\ UNCHANGED <<prog, cpuoff, nPolls, timerOn, txifg, rfie, radio, txfifo, env, obs>>
\* ------------------------------------------------------- decimal helper
\* the while (--index >= 0) loop of sc_itoa, entered with index decremented;
\* m is the array str points into, base the index of str[0] in it
RECURSIVE itoa_digits(_, _, _, _)
itoa_digits(value, m, base, index) ==
  IF index < 0 THEN [m |-> m, index |-> index]
  ELSE IF value < 10 THEN [m |-> Poke(m, base + index, (value % 10) + CH_0), index |-> index]
  ELSE itoa_digits(value \div 10, Poke(m, base + index, (value % 10) + CH_0), base, index - 1)

\* the end of sc_itoa: digits moved to the front of str and '\0' after them;
\* m holds the digits from str[extra] on, the sign is in place
itoa_move(m, base, len, extra, start) ==
  Poke([m EXCEPT !.a = [k \in DOMAIN m.a |->
                          IF k - 1 >= base + start /\ k - 1 < base + start + (len - extra)
                          THEN m.a[k - start + extra] ELSE m.a[k]]],
       base + (len - extra) + start, NUL)

\* sc_itoa after its while loop, which left d = [m, index]
itoa_after(d, negative, base, len) ==
  IF d.index < 1 \/ (negative /\ d.index < 2) THEN
    [m |-> Poke(d.m, base, NUL), ret |-> 0]
  ELSE IF negative THEN
    [m |-> itoa_move(Poke(d.m, base, 45), base, len, d.index, 1), ret |-> len - d.index + 1]
  ELSE
    [m |-> itoa_move(d.m, base, len, d.index, 0), ret |-> len - d.index]

\* sc_itoa(value, &m[base], len): the array after the call and the value returned
sc_itoa(value, m, base, len) ==
  itoa_after(itoa_digits(IF value < 0 THEN -value ELSE value, m, base, len - 1),
             value < 0, base, len)

\* one "DEBUG: write ... to UartTxBuffer" block of handle_rf_rx_packet after its
\* call of sc_itoa returned r: 'X' when r.ret is 0, then the separator sep
AppendAfter(r, L, sep) ==
  IF r.ret = 0 THEN [m |-> Poke(Poke(r.m, L, CH_X), L + 1, sep), len |-> UChar(L + 2)]
  ELSE [m |-> Poke(r.m, L + r.ret, sep), len |-> UChar(L + r.ret + 1)]

\* one such block: e is [m, len] = <UartTxBuffer with its overrun flag,
\* UartTxBufferLength>
AppendNumber(e, value, sep) ==
  AppendAfter(sc_itoa(value, e.m, e.len, UChar(UART_BUF_LEN - e.len)), e.len, sep)

\* ----------------------------------------------------------- radio input
\* the rx_error exit reached through the "Send the first byte to Uart" statement
rx_error_SendsByte(t) ==
  [t EXCEPT !.rf_error = 1, !.RfRxBufferLength = 0, !.err = TRUE,
            !.out = <<t.UartTxBuffer[t.UartTxBuffer_i + 1]>>]

\* handle_rf_rx_packet() leaves through one of these
rx_error(t) == [t EXCEPT !.rf_error = 1, !.RfRxBufferLength = 0, !.err = TRUE]
\* the failed_to_receive exit with the rx_error label's assignment on its path
failed_to_receive_SetsError(t) == [t EXCEPT !.rf_error = 1, !.RfRxBufferLength = 0]
failed_to_receive(t) == [t EXCEPT !.RfRxBufferLength = 0]

\* the two trailer blocks and the first byte sent to the UART; e is the
\* UartTxBuffer with the payload appended
rx_trailer(t, e) ==
  IF e.m.oob THEN [t EXCEPT !.oob = "UartTxBuffer"]
  ELSE [t EXCEPT !.UartTxBuffer = e.m.a,
                 !.UartTxBufferLength = e.len,
                 !.out = <<e.m.a[t.UartTxBuffer_i + 1]>>]

rx_second(e, value) == IF e.m.oob THEN e ELSE AppendNumber(e, value, NL)

\* handle_rf_rx_packet() from "Read the packet data" on: t has the n bytes of
\* the RX FIFO in RfRxBuffer
rx_packet(t, n) ==
  IF t.RfRxBuffer[n] < CRC_OK THEN rx_error(t)
  ELSE IF t.UartTxBufferLength + (n - 3) > UART_BUF_LEN THEN failed_to_receive(t)
  ELSE rx_trailer(t,
         rx_second(
           AppendNumber(
             [m |-> [a |-> [k \in 1..UART_BUF_LEN |->
                              IF k > t.UartTxBufferLength
                                 /\ k <= t.UartTxBufferLength + (n - 3)
                              THEN t.RfRxBuffer[k - t.UartTxBufferLength + 1]
                              ELSE t.UartTxBuffer[k]],
                     oob |-> FALSE],
              len |-> UChar(t.UartTxBufferLength + (n - 3))],
             t.RfRxBuffer[n - 1], CH_SP),
           t.RfRxBuffer[n]))

\* handle_rf_rx_packet() when the RX FIFO holds fifo and the SNOP strobe
\* reports status; s holds UartTxBuffer, UartTxBufferLength, UartTxBuffer_i,
\* RfRxBuffer, RfRxBufferLength, rf_error, and out = <<>>, err = FALSE,
\* oob = "none".  In the result out is what was written to UCA0TXBUF, err
\* tells that the rx_error label was reached, oob names the array an access
\* left
handle_rf_rx_packet(s, fifo, status) ==
  IF status # "IDLE" THEN rx_error(s)
  ELSE IF Len(fifo) < MIN_RX_BYTES THEN rx_error(s)
  ELSE IF Len(fifo) > PACKET_LEN THEN [s EXCEPT !.oob = "RfRxBuffer"]
  ELSE rx_packet([s EXCEPT !.RfRxBufferLength = Len(fifo),
                           !.RfRxBuffer = [k \in 1..PACKET_LEN |->
                                             IF k <= Len(fifo) THEN fifo[k]
                                             ELSE s.RfRxBuffer[k]]],
                 Len(fifo))

\* the globals handle_rf_rx_packet works on
RxState ==
  [UartTxBuffer |-> UartTxBuffer, UartTxBufferLength |-> UartTxBufferLength,
   UartTxBuffer_i |-> UartTxBuffer_i, RfRxBuffer |-> RfRxBuffer,
   RfRxBufferLength |-> RfRxBufferLength, rf_error |-> rf_error,
   out |-> <<>>, err |-> FALSE, oob |-> "none"]

\* CC1101_ISR, RFIFG9, where r is what handle_rf_rx_packet makes of the
\* globals; the radio has gone to `status`, rest remains to arrive
CC1101_ISR_body(r, status, rest) ==
  IF rf_receiving # 0 /\ r.oob # "none" THEN Halt(r.oob)
  ELSE
    /\ rfie' = FALSE
    /\ radio' = status
    /\ rfIn' = rest
    /\ IF rf_receiving # 0 THEN
         /\ rf_receiving' = 0
         /\ UartTxBuffer' = r.UartTxBuffer
         /\ UartTxBufferLength' = r.UartTxBufferLength
         /\ RfRxBuffer' = r.RfRxBuffer
         /\ RfRxBufferLength' = r.RfRxBufferLength
         /\ rf_error' = r.rf_error
         /\ serialOut' = serialOut \o r.out
         /\ txifg' = IF r.out # <<>> THEN TRUE ELSE txifg
         /\ appended' = appended \o SubSeq(r.UartTxBuffer, UartTxBufferLength + 1,
                                           r.UartTxBufferLength)
         /\ nRxFaults' = IF r.err THEN nRxFaults + 1 ELSE nRxFaults
       ELSE UNCHANGED <<rf_receiving, UartTxBuffer, UartTxBufferLength, rfrx, rf_error,
                        serialOut, txifg, appended, nRxFaults>>
    /\ rf_transmitting' = IF rf_transmitting # 0 THEN 0 ELSE rf_transmitting
    /\ cpuoff' = FALSE
    /\ UNCHANGED <<UartRxBuffer, UartRxBuffer_i, UartTxBuffer_i, uart_rx_timeout,
                   RfTxBuffer, data_to_send, pc, nPolls, timerOn, txfifo, uartIn,
                   accepted, sent, nTx, nResets, timerFired, fault>>

CC1101_ISR(fifo, status, rest) ==
  CC1101_ISR_body(handle_rf_rx_packet(RxState, fifo, status), status, rest)

\* end of a received packet while the receiver is on
RfPacketReceived ==
  /\ Running
  /\ rfie /\ radio = "RX"
  /\ rfIn # <<>>
  /\ CC1101_ISR(Head(rfIn).fifo, Head(rfIn).state, Tail(rfIn))

\* end of the transmitted packet
RfTxComplete ==
  /\ Running
  /\ rfie /\ radio = "TX"
  /\ CC1101_ISR(<<>>, "IDLE", rfIn)
\* ------------------------------------------------------ specifications
\* packets the radio may deliver
PktOk == Packet(Frame(<<65, NL>>, 5, 168), "IDLE")
PktCrc == Packet(Frame(<<65, NL>>, 5, 40), "IDLE")
PktShort == Packet(Frame(<<NL>>, 5, 168), "IDLE")
PktMismatch == Packet(Frame(<<65, NL>>, 5, 168), "RXFIFO_OVERFLOW")
PktBig == Packet(Frame(LineOf(PAYLOAD_LEN - 1), 200, 255), "IDLE")
PktMid == Packet(Frame(LineOf(13), 200, 255), "IDLE")

PktBigA == Packet(Frame(LineOf(PAYLOAD_LEN - 1), 5, 168), "IDLE")
\* the frame send_next_msg makes of PAYLOAD_LEN letters and a terminator
PktLong == Packet(Frame(LineOf(PAYLOAD_LEN), 5, 168), "IDLE")

\* serial inputs and packets that arrive in one run
ShortStreams == SeqsUpTo(Alphabet, MaxStream)
FaultPackets == {<<PktCrc>>, <<PktShort>>, <<PktMismatch>>}
Scenario(u, r) == [uart |-> u, rf |-> r]
ShortScenarios ==
  {Scenario(u, <<>>) : u \in ShortStreams}
  \cup {Scenario(u, r) : u \in SeqsUpTo(Alphabet, MaxStream - 1),
                         r \in {<<PktOk>>} \cup FaultPackets}
DeepScenarios ==
  {Scenario(LineOf(k), <<>>) : k \in {PAYLOAD_LEN - 1, PAYLOAD_LEN}}
  \cup {Scenario(Rep(65, UART_BUF_LEN + 1), <<>>)}
  \cup {Scenario(<<>>, <<PktOk>> \o r) : r \in FaultPackets}
  \cup {Scenario(<<>>, <<PktLong>>)}
  \cup {Scenario(<<>>, <<PktBig, PktBig, PktMid>>),
        Scenario(<<>>, <<PktBigA, PktBigA, PktBig>>)}
Scenarios == ShortScenarios \cup DeepScenarios

\* the state main() has built when it enters its loop
Boot ==
  /\ UartRxBuffer = Zeros(UART_BUF_LEN) /\ UartRxBuffer_i = 0
  /\ UartTxBuffer = Zeros(UART_BUF_LEN) /\ UartTxBuffer_i = 0 /\ UartTxBufferLength = 0
  /\ uart_rx_timeout = 0
  /\ RfRxBuffer = Zeros(PACKET_LEN) /\ RfRxBufferLength = 0
  /\ RfTxBuffer = Zeros(PACKET_LEN)
  /\ data_to_send = 0 /\ rf_error = 0 /\ rf_transmitting = 0 /\ rf_receiving = 0
  /\ pc = "top" /\ cpuoff = FALSE /\ nPolls = 0
  /\ timerOn = FALSE /\ txifg = TRUE /\ rfie = FALSE
  /\ radio = "SETTLING" /\ txfifo = <<>>
  /\ accepted = <<>> /\ sent = <<>> /\ nTx = 0 /\ serialOut = <<>> /\ appended = <<>>
  /\ nResets = 0 /\ nRxFaults = 0 /\ timerFired = 0 /\ fault = "none"

Init ==
  /\ Boot
  /\ \E sc \in Scenarios : uartIn = sc.uart /\ rfIn = sc.rf

Main == MainTop \/ MainRxOff \/ MainReset \/ MainPoll \/ MainRxOn \/ MainSleep
        \/ MainCheck \/ send_next_msg

Next ==
  \/ MainTop \/ MainRxOff \/ MainReset \/ MainPoll \/ MainRxOn \/ MainSleep \/ MainCheck
  \/ send_next_msg
  \/ USCI_A0_ISR_RX \/ USCI_A0_ISR_TX \/ TIMER1_A0_ISR
  \/ RfPacketReceived \/ RfTxComplete \/ RadioSettle

Spec == Init /\ [][Next]_vars
\* the serial side and the hardware that always get their turn: main runs
\* while the CPU is on, the radio ends a transmission and settles, the UART
\* and the timer raise their interrupts.  Serial bytes and radio packets
\* come from outside and may never come.
Fairness ==
  /\ WF_vars(Main)
  /\ WF_vars(RfTxComplete)
  /\ WF_vars(RadioSettle)
  /\ WF_vars(USCI_A0_ISR_TX)
  /\ WF_vars(TIMER1_A0_ISR)

FairScenarios ==
  {Scenario(u, r) : u \in SeqsUpTo(Alphabet, MaxStream - 1), r \in {<<>>, <<PktOk>>}}
  \cup {Scenario(<<65>>, <<PktMismatch>>)}
  \cup {Scenario(<<65, NL, 66, NL>>, <<>>)}

FairInit ==
  /\ Boot
  /\ \E sc \in FairScenarios : uartIn = sc.uart /\ rfIn = sc.rf

FairSpec == FairInit /\ [][Next]_vars /\ Fairness

\* the same, with a radio that may never reach IDLE: no fairness on RadioSettle
StuckRadioFairness ==
  /\ WF_vars(Main)
  /\ WF_vars(RfTxComplete)
  /\ WF_vars(USCI_A0_ISR_TX)
  /\ WF_vars(TIMER1_A0_ISR)

StuckRadioSpec == FairInit /\ [][Next]_vars /\ StuckRadioFairness

\* ---------------------------------------------------------------- claims
\* what a modem running the same code has after boot, and what it appends to
\* its UartTxBuffer when the frame arrives intact with the given RSSI and
\* link quality
PeerBoot ==
  [UartTxBuffer |-> Zeros(UART_BUF_LEN), UartTxBufferLength |-> 0, UartTxBuffer_i |-> 0,
   RfRxBuffer |-> Zeros(PACKET_LEN), RfRxBufferLength |-> 0, rf_error |-> 0,
   out |-> <<>>, err |-> FALSE, oob |-> "none"]
PeerResult(frame, rssi, lq) ==
  handle_rf_rx_packet(PeerBoot, frame \o <<rssi, CRC_OK + lq>>, "IDLE")
Appended(r) == SubSeq(r.UartTxBuffer, 1, r.UartTxBufferLength)
RssiValues == {5, 200}
LqValues == {0, 40, 127}

\* decimal text of a number
RECURSIVE Dec(_)
Dec(n) == IF n < 10 THEN <<CH_0 + n>> ELSE Dec(n \div 10) \o <<CH_0 + (n % 10)>>

\* a transmission is started in this step
TxStarts == sent' # sent
\* a terminator is accepted in this step
NewlineAccepted == accepted' # accepted /\ accepted'[Len(accepted')] = NL
\* the flush timer fires on a non-empty buffer in this step
TimeoutRaised == timerOn /\ ~timerOn' /\ uart_rx_timeout' = 1

\* C1: the stored length of the Ingress Buffer stays within 0..UART_BUF_LEN
\* and no access to UartRxBuffer lies at or beyond the capacity.
C1_IngressWithinCapacity ==
  UartRxBuffer_i >= 0 /\ UartRxBuffer_i <= UART_BUF_LEN /\ fault # "UartRxBuffer"

\* C2: every frame handed to the radio has a length byte L in 1..PAYLOAD_LEN
\* followed by exactly L bytes, and the encoding stays inside RfTxBuffer.
C2_FrameWithinPayload ==
  /\ fault # "RfTxBuffer"
  /\ txfifo # <<>> => /\ txfifo[1] >= 1 /\ txfifo[1] <= PAYLOAD_LEN
                      /\ Len(txfifo) = txfifo[1] + 1

\* C3: rf_transmitting and rf_receiving are never both set, and no
\* transmission is started while rf_transmitting is set.
C3_HalfDuplex ==
  /\ [](~(rf_transmitting # 0 /\ rf_receiving # 0))
  /\ [][TxStarts => rf_transmitting = 0 /\ rf_transmitting' # 0 /\ rf_receiving' = 0]_vars

\* a second transmission has begun, the receiver having listened in between
C3_Witness == rf_transmitting # 0 /\ rf_receiving = 0 /\ nTx >= 2 /\ radio = "TX"

\* C4: the bytes transmitted so far are a prefix of the bytes accepted, and
\* every accepted byte is either transmitted or still in the Ingress Buffer.
C4_RelayInOrder ==
  /\ IsPrefix(sent, accepted)
  /\ UartRxBuffer_i <= UART_BUF_LEN => Len(sent) + UartRxBuffer_i = Len(accepted)

\* C5: a newline-terminated message of 1..PAYLOAD_LEN bytes that arrived over
\* serial and was transmitted as one frame is what the peer appends to its
\* Egress Buffer (before the trailer) when the frame arrives intact.
C5_MessageRoundTrip ==
  ( /\ nTx = 1 /\ sent = accepted
    /\ Len(accepted) >= 1 /\ Len(accepted) <= PAYLOAD_LEN
    /\ \A k \in 1..Len(accepted) : (accepted[k] = NL) <=> (k = Len(accepted)) )
  => \A rssi \in RssiValues, lq \in LqValues :
       /\ PeerResult(txfifo, rssi, lq).oob = "none"
       /\ IsPrefix(accepted, Appended(PeerResult(txfifo, rssi, lq)))

\* C6: the logical length of the Egress Buffer never exceeds UART_BUF_LEN and
\* the receive path never writes UartTxBuffer at or beyond its capacity.
C6_EgressWithinCapacity ==
  UartTxBufferLength <= UART_BUF_LEN /\ fault # "UartTxBuffer"

\* C7: decoding what send_next_msg encoded for a payload of 1..PAYLOAD_LEN
\* bytes, with two status bytes and the CRC bit set, accepts the frame and
\* yields the payload.
C7_EncodeDecode ==
  (txfifo # <<>> /\ txfifo[1] >= 1 /\ txfifo[1] <= PAYLOAD_LEN /\ Len(txfifo) = txfifo[1] + 1)
  => \A rssi \in RssiValues, lq \in LqValues :
       /\ ~PeerResult(txfifo, rssi, lq).err
       /\ PeerResult(txfifo, rssi, lq).RfRxBufferLength = Len(txfifo) + 2
       /\ SubSeq(PeerResult(txfifo, rssi, lq).RfRxBuffer, 2, Len(txfifo)) = Tail(txfifo)

\* C8: what a decoded frame appends to the Egress Buffer is its payload, the
\* decimal RSSI, a space, the decimal of the low 7 bits of the status byte
\* and a newline.
C8_EgressFormat ==
  [][appended' # appended =>
       appended' = appended
                   \o SubSeq(RfRxBuffer', 2, RfRxBufferLength' - 2)
                   \o Dec(RfRxBuffer'[RfRxBufferLength' - 1]) \o <<CH_SP>>
                   \o Dec(RfRxBuffer'[RfRxBufferLength'] % CRC_OK) \o <<NL>>]_vars

\* C9: a fault in the receive path sets rf_error, only the supervisor's radio
\* reset clears it, and listening never starts while it is set.
C9_FaultUntilReset ==
  [][ /\ nRxFaults' # nRxFaults => rf_error' # 0
      /\ (rf_error # 0 /\ rf_error' = 0) => (nResets' = nResets + 1 /\ radio' = "SETTLING")
      /\ (rf_receiving = 0 /\ rf_receiving' # 0) => (rf_error = 0 /\ rf_error' = 0) ]_vars

\* listening again after a receive fault and the reset it forced
C9_Witness ==
  nRxFaults >= 1 /\ nResets >= 1 /\ rf_error = 0 /\ rf_receiving # 0 /\ radio = "RX"

\* C10: a terminator accepted, or the flush timer firing on a non-empty
\* buffer, wakes the supervisor, and a pending message leads to a
\* transmission without any further serial byte or radio packet.
C10_DispatchLive ==
  /\ [][(NewlineAccepted \/ TimeoutRaised) => ~cpuoff']_vars
  /\ (data_to_send # 0) ~> (rf_transmitting # 0)

\* C11: once a transmission has completed (both flags clear after a frame was
\* sent) the supervisor eventually listens again, with no further serial byte
\* or radio packet needed, wherever in its loop the completion was delivered.
C11_ListenLive ==
  (nTx >= 1 /\ rf_transmitting = 0 /\ rf_receiving = 0)
    ~> (rf_receiving # 0 \/ fault # "none")

\* C12: the supervisor's wait for the radio to report IDLE ends after a
\* bounded number of polls even when the radio never reports IDLE.
C12_PollBounded == (pc = "poll") ~> (pc # "poll" \/ fault # "none")

\* a serial byte is taken from the line in this step
ByteArrives == uartIn' # uartIn
\* the flush timer expires in this step
TimerFires == timerOn /\ ~timerOn' /\ uartIn' = uartIn

\* C13: every non-terminator byte leaves the flush timer armed (also when the
\* Ingress Buffer is full), a terminator leaves it disarmed, and the timer
\* firing raises the pending-flush and the pending-message flags.
C13_FlushTimer ==
  [][ /\ (ByteArrives /\ Head(uartIn) # NL) => timerOn'
      /\ (ByteArrives /\ Head(uartIn) = NL) => ~timerOn'
      /\ TimerFires => (uart_rx_timeout' = 1 /\ data_to_send' # 0) ]_vars

\* C14: a frame that leaves handle_rf_rx_packet through rx_error (status not
\* IDLE, fewer than 5 bytes, CRC bit clear) changes neither the Egress Buffer,
\* its length, its cursor, nor writes a byte to the serial transmit register.
C14_RejectedFrameSilent ==
  [][nRxFaults' # nRxFaults =>
       (UNCHANGED <<egress, serialOut>> /\ appended' = appended)]_vars

\* a frame was rejected while an earlier one was being drained
C14_Witness == nRxFaults >= 1 /\ UartTxBufferLength > 0 /\ UartTxBuffer_i > 0

\* s is a sequence of complete messages, each of at most PAYLOAD_LEN bytes
\* with its terminator
CompleteMessages(s) ==
  /\ s # <<>> /\ s[Len(s)] = NL
  /\ \A i \in 1..(Len(s) - PAYLOAD_LEN + 1) :
       \E j \in i..(i + PAYLOAD_LEN - 1) : s[j] = NL
\* all of the input is in the Ingress Buffer, no dispatch and no timer fire yet
AllBuffered ==
  /\ uartIn = <<>> /\ CompleteMessages(accepted)
  /\ nTx = 0 /\ timerFired = 0 /\ UartRxBuffer_i = Len(accepted)
\* the frame handed to the radio in this step is one whole message
OneMessageSent ==
  /\ IsPrefix(sent', accepted)
  /\ \A i \in 1..Len(txfifo') - 1 : (txfifo'[i + 1] = NL) <=> (i = Len(txfifo') - 1)

\* C15: messages that were all buffered before the first dispatch, with no
\* timer fire, go out one frame per message in arrival order, and then the
\* Ingress Buffer is empty and data_to_send clear.
C15_FramePerMessage ==
  /\ [][(TxStarts /\ uartIn = <<>> /\ timerFired = 0 /\ CompleteMessages(accepted))
          => OneMessageSent]_vars
  /\ AllBuffered ~> (sent = accepted /\ UartRxBuffer_i = 0 /\ data_to_send = 0)

\* C16: a serial byte that arrives while the Ingress Buffer is full is
\* dropped and leaves the buffer, its length, data_to_send, uart_rx_timeout
\* and rf_error as they were.
C16_OverflowUntouched ==
  [][(ByteArrives /\ UartRxBuffer_i = UART_BUF_LEN) =>
       (accepted' = accepted
        /\ UNCHANGED <<UartRxBuffer, UartRxBuffer_i, data_to_send, uart_rx_timeout, rf_error>>)]_vars

\* a well-formed, CRC-valid frame arrives in this step and its payload does
\* not fit into the Egress Buffer
EgressOverflow ==
  /\ rfIn' # rfIn /\ rf_receiving # 0
  /\ Head(rfIn).state = "IDLE"
  /\ Len(Head(rfIn).fifo) >= MIN_RX_BYTES /\ Len(Head(rfIn).fifo) <= PACKET_LEN
  /\ Head(rfIn).fifo[Len(Head(rfIn).fifo)] >= CRC_OK
  /\ UartTxBufferLength + (Len(Head(rfIn).fifo) - 3) > UART_BUF_LEN

\* C17: dropping a valid frame for lack of room in the Egress Buffer does not
\* set rf_error and triggers no radio reset.
C17_OverflowNoFault ==
  [][EgressOverflow => (rf_error' = 0 /\ nRxFaults' = nRxFaults /\ nResets' = nResets)]_vars

\* listening again, without a reset, after a frame was dropped for lack of room
C17_Witness ==
  /\ rfIn = <<>> /\ RfRxBufferLength = 0 /\ UartTxBufferLength > UART_BUF_LEN - PAYLOAD_LEN
  /\ nRxFaults = 0 /\ nResets = 0 /\ rf_error = 0 /\ rf_receiving # 0 /\ fault = "none"

\* the serial-ready interrupt is taken with an empty Egress Buffer in this step
SpuriousReady == txifg /\ ~txifg' /\ UartTxBufferLength = 0 /\ rfIn' = rfIn

\* C18: the bytes written to the serial transmit register are the bytes
\* appended to the Egress Buffer, each once and in order, all of them once the
\* buffer has been drained; a ready signal on an empty buffer changes nothing.
C18_DrainInOrder ==
  /\ [](IsPrefix(serialOut, appended))
  /\ []((UartTxBufferLength = 0 /\ fault = "none") => serialOut = appended)
  /\ [][SpuriousReady => UNCHANGED <<egress, serialOut>>]_vars

\* C19: the length a dispatch chooses never exceeds the stored length of the
\* Ingress Buffer, so the residual length UartRxBuffer_i - len is not negative.
C19_LenWithinBuffer ==
  (pc = "send" /\ fault = "none") => (MsgLen <= UartRxBuffer_i /\ UartRxBuffer_i - MsgLen >= 0)

\* C20: handle_rf_rx_packet never reads more bytes from the RX FIFO into
\* RfRxBuffer than the PACKET_LEN bytes it holds.
C20_RxReadWithinBuffer ==
  RfRxBufferLength <= PACKET_LEN /\ fault # "RfRxBuffer"
====
